---- MODULE Spec2Model ----
(***************************************************************************)
(* Orchestration core of the Impostor Discord bot (ImpostorClient,         *)
(* ResponseEvaluator, MessageTracker, DatabaseManager): per-channel        *)
(* debounce timers, the dominance ratio, the context window, the           *)
(* sequential dispatch queue and the bounded tool-iteration loop.          *)
(*                                                                         *)
(* Time is counted in seconds.  Node's event loop runs one handler at a    *)
(* time, so every action is the code between two suspension points         *)
(* (awaits on transport, oracle or timer) of one handler.                  *)
(***************************************************************************)
EXTENDS Integers, Sequences, FiniteSets, TLC

\* ------------------------------------------------------------------ bounds
\* Human messages delivered by the transport in one behaviour.
MaxMsgs == 3
\* Horizon of the clock, in seconds.
MaxTime == 3
\* config.autonomous.debounce_seconds of the modelled deployment (0: unset).
ConfigDebounceSeconds == 2
\* Human messages delivered in one behaviour of the liveness specification.
LiveMaxMsgs == 2
\* Windowing specification: bursts stored, clock horizon in seconds, stored messages.
WinMaxBursts == 3
WinMaxClock == 2700
WinMaxStored == 21
\* Message store specification: distinct message ids inserted.
StoreMaxIds == 2
\* Tool executions that may fail during one generation.
MaxFailedTools == 2
\* Debounce specification: largest configured autonomous.debounce_seconds.
MaxConfigDebounce == 120

\* Channels the bot is allowed in.
Chans == {"c1", "c2"}
\* Kinds of inbound human message: a mention of / reply to the bot, a message
\* naming "isaac" without being a trigger, and any other message.
Kinds == {"direct", "named", "plain"}
\* Stored history the first channel may hold at start-up (backfill, earlier
\* runs), oldest first; TRUE is an agent-authored message.
InitHistories == {<< >>, <<TRUE>>, <<FALSE, TRUE, TRUE>>}
\* Tool names the generation oracle may ask for ("none": no tool_request;
\* "bogus": a name outside the known tools).
ToolRequests == {"none", "python", "bogus"}
\* Lengths, in characters, of the message (or raw content) of an oracle answer.
MessageLengths == {0, 5, 2000, 2500}

\* ------------------------------------------------------- program constants
MentionDebounceSeconds == 3
DefaultDebounceSeconds == 10
FetchLimit == 50
EvalContextBefore == 5
DirectContextBefore == 10
MaxContextAgeMinutes == 30
MaxConversationGapMinutes == 30
RatioMaxMessages == 20
RatioMaxAgeMinutes == 30
InterJobDelaySeconds == 1
maxIterations == 10
ReplyLimit == 2000
\* README: "backs off if >40% of recent messages".
HardCeilingPercent == 40

VARIABLES
  now,                    \* Date.now(), seconds
  nextMsgId,              \* next transport-assigned message id (snowflakes grow with time)
  delivered,              \* human messages delivered so far
  store,                  \* messages table, per channel, ordered by created_at
  messageCountSinceEval,  \* MessageTracker.messageCountSinceEval
  evaluationTimers,       \* ImpostorClient.evaluationTimers: channel -> timer handle (0: no entry)
  liveTimers,             \* timers pending in the runtime (armed, not fired, not cleared)
  evaluations,            \* shouldRespond calls awaiting the decision oracle
  decisions,              \* decision_log rows, in id order
  messageQueue,           \* ImpostorClient.messageQueue
  isProcessing,           \* ImpostorClient.isProcessing
  workers,                \* running invocations of processMessageQueue
  enqLog,                 \* history: every job pushed, in push order
  dequeued,               \* history: every job shifted, in shift order
  burst,                  \* history: per channel, the current run of non-trigger messages
  triggers,               \* history: ids of the direct-trigger messages handled
  gen,                    \* one call of generateResponseWithChatCompletions, step by step
  dbOpen,                 \* the database connection is open (closed by shutdown)
  returned,               \* history: every completed shouldRespond call, in order of return
  outbox,                 \* history: messages sent to a channel, by job
  failed,                 \* history: jobs whose processing raised an error
  probe,                  \* last application of a store / windowing function and its result
  tracking                \* handleMessageCreate calls suspended in addMessage (image descriptions)

dispatchVars == <<now, nextMsgId, delivered, store, messageCountSinceEval, evaluationTimers,
                  liveTimers, evaluations, decisions, messageQueue, isProcessing, workers,
                  enqLog, dequeued, burst, triggers, tracking>>

historyVars == <<returned, outbox, failed>>

vars == <<dispatchVars, gen, dbOpen, historyVars, probe>>

\* ---------------------------------------------------------------- helpers
Min(a, b) == IF a < b THEN a ELSE b
Max(a, b) == IF a > b THEN a ELSE b

Range(s) == {s[i] : i \in 1..Len(s)}

\* Array.prototype.slice(from, to) with 0-based, end-exclusive indices.
Slice(s, from, to) == SubSeq(s, Min(from, Len(s)) + 1, Min(to, Len(s)))

RECURSIVE Reverse(_)
Reverse(s) == IF s = << >> THEN << >> ELSE Append(Reverse(Tail(s)), Head(s))

\* No function applied yet.
NoProbe == [op |-> "none"]

NoBurst == [n |-> 0, calls |-> 0, due |-> 0, callAt |-> 0, end |-> "none"]

\* ----------------------------------------------------------- DatabaseManager
Msg(id, bot, t) == [id |-> id, is_bot_message |-> bot, created_at |-> t]

\* INSERT OR REPLACE keyed by id; rows are read back ordered by created_at
\* (message ids grow with creation time and order rows of equal created_at).
Before(a, b) == \/ a.created_at < b.created_at
                \/ a.created_at = b.created_at /\ a.id < b.id

\* An INSERT OR IGNORE in the place of INSERT OR REPLACE.
insertMessageEnhanced_ignore(rows, m) ==
  IF \E i \in 1..Len(rows) : rows[i].id = m.id THEN rows
  ELSE LET older == SelectSeq(rows, LAMBDA r : Before(r, m))
           newer == SelectSeq(rows, LAMBDA r : ~Before(r, m))
       IN older \o <<m>> \o newer

insertMessageEnhanced(rows, m) ==
  LET others == SelectSeq(rows, LAMBDA r : r.id # m.id)
      older  == SelectSeq(others, LAMBDA r : Before(r, m))
      newer  == SelectSeq(others, LAMBDA r : ~Before(r, m))
  IN older \o <<m>> \o newer

\* SELECT * FROM (... ORDER BY created_at DESC LIMIT ?) ORDER BY created_at ASC
getRecentMessages(c, limit) ==
  LET rows == store[c]
  IN SubSeq(rows, Max(1, Len(rows) - limit + 1), Len(rows))

\* ---------------------------------------------------------- ResponseEvaluator
\* The ratio as the pair (agent-authored, total) of the counted window; 0/0 is
\* the code's "return 0".
calculateBotRatio(allRecentMessages, maxMessages, maxAgeMinutes) ==
  LET cutoffTime == now - maxAgeMinutes * 60
      recent == SelectSeq(Slice(allRecentMessages, 0, maxMessages),
                          LAMBDA m : m.created_at >= cutoffTime)
      bots == SelectSeq(recent, LAMBDA m : m.is_bot_message)
  IN [num |-> Len(bots), den |-> Len(recent)]

\* ------------------------------------------------------------ ImpostorClient
hasMessagesSinceLastBotResponse(messages) ==
  IF Len(messages) = 0 THEN FALSE ELSE ~messages[1].is_bot_message

filterByConversationGaps(messages, maxGapMinutes) ==
  IF Len(messages) <= 1 THEN messages
  ELSE LET maxGap == maxGapMinutes * 60
           gaps == {i \in 1..(Len(messages) - 1) :
                      messages[i].created_at - messages[i + 1].created_at > maxGap}
       IN IF gaps = {} THEN messages
          ELSE LET i == CHOOSE j \in gaps : \A k \in gaps : j <= k
               IN SubSeq(messages, 1, i)

getMessagesForEvaluation(messages, contextBefore, maxAgeMinutes, maxGapMinutes) ==
  LET cutoffTime == now - maxAgeMinutes * 60
      recentMessages == SelectSeq(messages, LAMBDA m : m.created_at >= cutoffTime)
      filteredMessages == filterByConversationGaps(recentMessages, maxGapMinutes)
      botIdx == {i \in 1..Len(filteredMessages) : filteredMessages[i].is_bot_message}
  IN IF recentMessages = << >> \/ filteredMessages = << >> THEN << >>
     ELSE IF botIdx = {} THEN Reverse(filteredMessages)
     ELSE LET lastBotIndex == (CHOOSE j \in botIdx : \A k \in botIdx : j <= k) - 1
              messagesAfterBot == Slice(filteredMessages, 0, lastBotIndex)
              botMessage == filteredMessages[lastBotIndex + 1]
              messagesBeforeBot == Slice(filteredMessages, lastBotIndex + 1,
                                         lastBotIndex + 1 + contextBefore)
          IN Reverse(messagesBeforeBot) \o <<botMessage>> \o Reverse(messagesAfterBot)

\* (config.autonomous?.debounce_seconds || 10) * 1000, or 3000 when "isaac" is named.
\* debounceMs in seconds, for a configuration with autonomous.debounce_seconds
\* = configured (0 for an absent value, which "||" replaces by the default).
debounceWait(mentionsIsaac, configured) ==
  IF mentionsIsaac THEN MentionDebounceSeconds
  ELSE IF configured = 0 THEN DefaultDebounceSeconds
  ELSE configured

debounceSeconds(mentionsIsaac) == debounceWait(mentionsIsaac, ConfigDebounceSeconds)

\* setTimeout returns a handle not in use by a pending timer.
FreshTimer == CHOOSE id \in 1..(Cardinality(liveTimers) + 1) :
                 \A t \in liveTimers : t.id # id

\* A clearTimeout that leaves the timer pending.
clearTimeout_forgotten(timers, handle) == timers

\* clearTimeout(handle): the runtime drops that timer.
clearTimeout(timers, handle) == {t \in timers : t.id # handle}

scheduleAutonomousEvaluation(c, mentionsIsaac) ==
  LET rearm == evaluationTimers[c] # 0
      kept == IF rearm THEN clearTimeout(liveTimers, evaluationTimers[c]) ELSE liveTimers
      timer == [id |-> FreshTimer, chan |-> c,
                deadline |-> now + debounceSeconds(mentionsIsaac),
                superseded |-> FALSE]
  IN /\ liveTimers' = kept \cup {timer}
     /\ evaluationTimers' = [evaluationTimers EXCEPT ![c] = timer.id]
     /\ burst' = [burst EXCEPT ![c] =
                    [n |-> IF rearm /\ burst[c].end = "pending" THEN burst[c].n + 1 ELSE 1,
                     calls |-> IF rearm /\ burst[c].end = "pending" THEN burst[c].calls ELSE 0,
                     due |-> timer.deadline, callAt |-> 0, end |-> "pending"]]

\* A cancelEvaluationTimer that leaves the pending timer armed.
cancelEvaluationTimer_keeps(c) == UNCHANGED <<liveTimers, evaluationTimers, burst>>

cancelEvaluationTimer(c) ==
  IF evaluationTimers[c] # 0
  THEN /\ liveTimers' = clearTimeout(liveTimers, evaluationTimers[c])
       /\ evaluationTimers' = [evaluationTimers EXCEPT ![c] = 0]
       /\ burst' = [burst EXCEPT ![c] =
                      IF burst[c].end = "pending"
                      THEN [burst[c] EXCEPT !.end = "cancelled"] ELSE burst[c]]
  ELSE UNCHANGED <<liveTimers, evaluationTimers, burst>>

\* Array.prototype.pop() in the place of shift().
shift_pop(q) == [item |-> q[Len(q)], rest |-> SubSeq(q, 1, Len(q) - 1)]

\* Array.prototype.shift()
shift(q) == [item |-> Head(q), rest |-> Tail(q)]

\* A worker started without looking at isProcessing.
WorkerMayStart_unguarded == TRUE

\* A push site that never starts the worker.
WorkerMayStart_never == FALSE

\* "if (!this.isProcessing) this.processMessageQueue()" at the push sites, and
\* "if (this.isProcessing) return" on entry.
WorkerMayStart == ~isProcessing

\* idx: the position of the job in the order of dequeuing.
\* after: what preceded the shift of the job in the worker loop: the entry of
\* the loop ("start"), the inter-job delay ("delay") or the catch block
\* ("error"). context: the ids of the messages the reply is generated from,
\* where the specification traces them.
Running(job) ==
  [pc |-> "typing", job |-> job, until |-> 0, idx |-> Len(dequeued) + 1, after |-> "start",
   context |-> {}]

\* messageQueue.push(job), then the call of processMessageQueue, which runs
\* up to the first await of the job it shifts.
enqueue(job) ==
  LET q == Append(messageQueue, job)
  IN /\ enqLog' = Append(enqLog, job)
     /\ IF WorkerMayStart
        THEN LET d == shift(q)
             IN /\ isProcessing' = TRUE
                /\ messageQueue' = d.rest
                /\ workers' = workers \cup {Running(d.item)}
                /\ dequeued' = Append(dequeued, d.item)
        ELSE /\ messageQueue' = q
             /\ UNCHANGED <<isProcessing, workers, dequeued>>

\* The head of the while loop of processMessageQueue for worker w.
loopNext(w) ==
  IF Len(messageQueue) > 0
  THEN LET d == shift(messageQueue)
       IN /\ messageQueue' = d.rest
          /\ workers' = (workers \ {w}) \cup
                          {[Running(d.item) EXCEPT
                              !.after = IF w.pc = "delay" THEN "delay" ELSE "error"]}
          /\ dequeued' = Append(dequeued, d.item)
          /\ UNCHANGED isProcessing
  ELSE /\ workers' = workers \ {w}
       /\ isProcessing' = FALSE
       /\ UNCHANGED <<messageQueue, dequeued>>

\* The end of the try block: the delay when further jobs wait, else the loop head.
afterJob(w) ==
  IF Len(messageQueue) > 0
  THEN /\ workers' = (workers \ {w}) \cup
                       {[w EXCEPT !.pc = "delay", !.until = now + InterJobDelaySeconds]}
       /\ UNCHANGED <<messageQueue, dequeued, isProcessing>>
  ELSE loopNext(w)

\* A catch block that drops the worker where the error was raised.
catchError_halts(w) ==
  /\ failed' = failed \cup {w.idx}
  /\ workers' = workers \ {w}
  /\ UNCHANGED <<messageQueue, dequeued, isProcessing>>

\* The catch block of processMessageQueue: the apology for a Direct job, then
\* the loop head.
catchError(w) ==
  /\ failed' = failed \cup {w.idx}
  /\ IF w.job.type = "direct"
     THEN /\ workers' = (workers \ {w}) \cup {[w EXCEPT !.pc = "apologizing"]}
          /\ UNCHANGED <<messageQueue, dequeued, isProcessing>>
     ELSE loopNext(w)

\* A message handed to the transport for the channel of job w: msg is the id
\* the transport gives it, evals the number of evaluations started by then.
Sent(w, kind) ==
  [job |-> w.idx, type |-> w.job.type, chan |-> w.job.chan, kind |-> kind,
   msg |-> nextMsgId, evals |-> Len(returned) + Cardinality(evaluations),
   context |-> w.context]

\* ------------------------------------------------- generation and its tool loop
\* A text is identified by where it comes from (the message field or the raw
\* content of the answer to oracle call `call`, or one of the fixed strings)
\* and by its length in characters; a shorter len of the same text is a prefix.
Text(src, call, len) == [src |-> src, call |-> call, len |-> len]

NoText == Text("none", 0, 0)

\* "Something went wrong with my processing."
FallbackApology == Text("apology", 0, 40)

\* "Error parsing response."
ParseErrorText == Text("parse_error", 0, 23)

\* String.prototype.substring(from, to) applied to a text, from = 0.
substring_whole(t, from, to) == t

substring(t, from, to) == [t EXCEPT !.len = Min(t.len, to) - from]

KnownTools == {"python", "web_search", "web_fetch"}

\* Contents the generation oracle may answer with: a JSON object (any field may
\* be missing, which reads as falsy: tool_request "none", len 0), content that
\* does not parse as JSON (len 0 is the empty string), or null / JSON null.
OracleContents ==
  [kind : {"object"}, needs_tool : BOOLEAN, tool_request : ToolRequests,
   continue_iterating : BOOLEAN, len : MessageLengths]
  \cup [kind : {"text"}, needs_tool : {FALSE}, tool_request : {"none"},
        continue_iterating : {FALSE}, len : MessageLengths]
  \cup [kind : {"null"}, needs_tool : {FALSE}, tool_request : {"none"},
        continue_iterating : {FALSE}, len : {0}]

NoResponse == [kind |-> "none", needs_tool |-> FALSE, tool_request |-> "none",
               continue_iterating |-> FALSE, message |-> NoText]

\* JSON.parse succeeds on objects and on null (kind "null": the value has no
\* properties to read); on anything else the catch builds the fallback.
parseStructuredResponse(content, call) ==
  CASE content.kind = "object" ->
         [kind |-> "object", needs_tool |-> content.needs_tool,
          tool_request |-> content.tool_request,
          continue_iterating |-> content.continue_iterating,
          message |-> Text("message", call, content.len)]
    [] content.kind = "null" ->
         [NoResponse EXCEPT !.kind = "null"]
    [] OTHER ->
         [kind |-> "object", needs_tool |-> FALSE, tool_request |-> "none",
          continue_iterating |-> FALSE,
          message |-> IF content.len > 0 THEN Text("raw", call, content.len)
                      ELSE ParseErrorText]

\* The while condition of the tool loop.
loopCondition(sr, iterationCount) ==
  sr.needs_tool /\ sr.tool_request # "none" /\ iterationCount < maxIterations

\* The break at the end of the loop body.
breakLoop_never(sr) == FALSE

\* A break taken when the oracle asks to go on.
breakLoop_inverted(sr) == sr.continue_iterating

breakLoop(sr) == ~sr.continue_iterating

\* An executeTool in which an unknown tool name may succeed.
executeTool_any(toolRequest) == BOOLEAN

\* executePython rejects when writing the script file throws, as
\* fs.writeFileSync does for a request without code; the other tools catch
\* their errors.
executeToolRejects(toolRequest) == toolRequest = "python"

\* Outcomes of executeTool: a known tool succeeds or fails, any other name
\* yields the "Unknown tool" failure.
executeTool(toolRequest) == IF toolRequest \in KnownTools THEN BOOLEAN ELSE {FALSE}

\* Extraction of the final message, the length cap and the return.
finalReply(sr) ==
  LET replyMessage == IF sr.message.len > 0 THEN sr.message ELSE FallbackApology
  IN IF replyMessage.len > ReplyLimit THEN substring(replyMessage, 0, ReplyLimit)
     ELSE replyMessage

GenIdle == [pc |-> "idle", structuredResponse |-> NoResponse, iterationCount |-> 0,
            allToolResults |-> << >>, oracleCalls |-> 0, toolExecs |-> 0,
            replyMessage |-> NoText, sent |-> NoText,
            rejected |-> FALSE, toolThrew |-> FALSE, needsLead |-> 0, leadOpen |-> TRUE,
            stopAt |-> 0, stopMessage |-> NoText]

\* ---------------------------------------------------------------- actions
Init ==
  /\ now = 0
  /\ nextMsgId = 4
  /\ delivered = 0
  /\ \E h \in InitHistories :
       store = [c \in Chans |-> IF c = "c1" THEN [i \in 1..Len(h) |-> Msg(i, h[i], 0)]
                                ELSE << >>]
  /\ messageCountSinceEval = [c \in Chans |-> 0]
  /\ evaluationTimers = [c \in Chans |-> 0]
  /\ liveTimers = {}
  /\ evaluations = {}
  /\ decisions = << >>
  /\ messageQueue = << >>
  /\ isProcessing = FALSE
  /\ workers = {}
  /\ enqLog = << >>
  /\ dequeued = << >>
  /\ burst = [c \in Chans |-> NoBurst]
  /\ triggers = {}
  /\ gen = GenIdle
  /\ dbOpen = TRUE
  /\ returned = << >>
  /\ outbox = {}
  /\ failed = {}
  /\ probe = NoProbe
  /\ tracking = {}

\* The clock advances up to the horizon, and beyond it while an inter-job
\* delay is still running.
Tick ==
  /\ \/ now < MaxTime
     \/ \E w \in workers : w.pc = "delay" /\ w.until > now
  /\ now' = now + 1
  /\ UNCHANGED <<nextMsgId, delivered, store, messageCountSinceEval, evaluationTimers,
                 liveTimers, evaluations, decisions, messageQueue, isProcessing, workers,
                 enqLog, dequeued, burst, triggers, gen, dbOpen, returned, outbox, failed, probe, tracking>>

\* A direct-trigger branch that applies the dominance throttle.
handleDirectTrigger_throttled(c, m) ==
  LET r == calculateBotRatio(getRecentMessages(c, FetchLimit), RatioMaxMessages, RatioMaxAgeMinutes)
  IN IF r.num * 100 > HardCeilingPercent * r.den
     THEN UNCHANGED <<messageQueue, isProcessing, workers, enqLog, dequeued,
                      liveTimers, burst, evaluationTimers>>
     ELSE /\ enqueue([type |-> "direct", chan |-> c, msg |-> m.id, decisionId |-> 0])
          /\ UNCHANGED <<liveTimers, burst, evaluationTimers>>

\* The direct-trigger branch of handleMessageCreate.
handleDirectTrigger(c, m) ==
  /\ enqueue([type |-> "direct", chan |-> c, msg |-> m.id, decisionId |-> 0])
  /\ liveTimers' = {IF t.chan = c THEN [t EXCEPT !.superseded = TRUE] ELSE t : t \in liveTimers}
  /\ burst' = [burst EXCEPT ![c] = NoBurst]
  /\ UNCHANGED evaluationTimers

\* handleMessageCreate for a human message without image attachments
\* (addMessage then has no suspension point). tracked tells whether the insert
\* of addMessage succeeded; when it throws, as it does on a closed database,
\* the handler ends there.
\* handleMessageCreate from the insert of addMessage on: the row, the
\* counter, then the push of a Direct job or the arming of the timer.
afterAddMessage(c, kind, m) ==
  /\ store' = [store EXCEPT ![c] = insertMessageEnhanced(store[c], m)]
  /\ messageCountSinceEval' = [messageCountSinceEval EXCEPT ![c] = @ + 1]
  /\ IF kind = "direct"
     THEN handleDirectTrigger(c, m)
     ELSE /\ scheduleAutonomousEvaluation(c, kind = "named")
          /\ UNCHANGED <<messageQueue, isProcessing, workers, enqLog, dequeued>>

handleMessageCreate(c, kind, tracked) ==
  LET m == Msg(nextMsgId, FALSE, now)
  IN /\ delivered < MaxMsgs
     /\ delivered' = delivered + 1
     /\ nextMsgId' = nextMsgId + 1
     /\ triggers' = IF kind = "direct" THEN triggers \cup {m.id} ELSE triggers
     /\ IF dbOpen /\ tracked
        THEN afterAddMessage(c, kind, m)
        ELSE UNCHANGED <<store, messageCountSinceEval, messageQueue, isProcessing, workers,
                         enqLog, dequeued, liveTimers, burst, evaluationTimers>>
     /\ UNCHANGED <<now, evaluations, decisions, gen, dbOpen, returned, outbox, failed, probe, tracking>>

\* The synchronous part of evaluateAutonomousResponse and shouldRespond, up to
\* the await of the decision oracle: the calls it leaves in flight. id numbers
\* the calls of shouldRespond; ids are the evaluated message ids.
evaluateAutonomousResponse(c, superseded) ==
  LET recentMessages == getRecentMessages(c, FetchLimit)
      botRatio == calculateBotRatio(recentMessages, RatioMaxMessages, RatioMaxAgeMinutes)
      hasNewMessages == hasMessagesSinceLastBotResponse(recentMessages)
      evaluationMessages == getMessagesForEvaluation(recentMessages, EvalContextBefore,
                                MaxContextAgeMinutes, MaxConversationGapMinutes)
  IN IF ~hasNewMessages THEN {}
     ELSE IF Len(evaluationMessages) = 0 THEN {}
     ELSE {[chan |-> c, botRatio |-> botRatio, n |-> Len(evaluationMessages),
            at |-> now, superseded |-> superseded,
            agentLast |-> store[c][Len(store[c])].is_bot_message,
            id |-> Len(returned) + Cardinality(evaluations) + 1,
            ids |-> [i \in 1..Len(evaluationMessages) |-> evaluationMessages[i].id]]}

\* The callback of the debounce timer.
TimerFires(t) ==
  LET c == t.chan
      calls == evaluateAutonomousResponse(c, t.superseded)
  IN /\ t \in liveTimers
     /\ now >= t.deadline
     /\ liveTimers' = liveTimers \ {t}
     /\ evaluationTimers' = [evaluationTimers EXCEPT ![c] = 0]
     /\ evaluations' = evaluations \cup calls
     /\ burst' = [burst EXCEPT ![c] =
                    IF burst[c].end # "pending" THEN burst[c]
                    ELSE IF calls = {} THEN [burst[c] EXCEPT !.end = "skipped"]
                    ELSE [burst[c] EXCEPT !.end = "called", !.calls = @ + 1, !.callAt = now]]
     /\ UNCHANGED <<now, nextMsgId, delivered, store, messageCountSinceEval, decisions,
                    messageQueue, isProcessing, workers, enqLog, dequeued, triggers, gen,
                    dbOpen, returned, outbox, failed, probe, tracking>>

\* A decision_log row written by logDecision for evaluation e.
DecisionRow(e, verdict, isError) ==
  [chan |-> e.chan, should_respond |-> verdict, response_sent |-> FALSE,
   eval |-> e.id, messages_evaluated |-> e.n, ids |-> e.ids, error |-> isError]

\* A shouldRespond whose catch block rethrows instead of recording the failure.
shouldRespond_rethrows(e, outcome, stored) ==
  IF outcome = "failed"
  THEN [should_respond |-> FALSE, error |-> TRUE, log |-> << >>, threw |-> TRUE]
  ELSE [should_respond |-> outcome = "respond", error |-> FALSE,
        log |-> <<DecisionRow(e, outcome = "respond", FALSE)>>, threw |-> FALSE]

\* shouldRespond from the answer of the decision oracle on: outcome "failed"
\* is a rejected call, an unparseable answer or one without a boolean
\* should_respond (the catch block), the others are the verdict of a valid
\* answer. stored tells whether the insert of storePrompt, which follows
\* logDecision inside the try block, succeeded: when it throws, the catch block
\* calls logDecision a second time. log holds the rows written; on a closed
\* database logDecision throws, in the try block and again in the catch block.
shouldRespond(e, outcome, stored) ==
  IF ~dbOpen
  THEN [should_respond |-> FALSE, error |-> TRUE, log |-> << >>, threw |-> TRUE]
  ELSE IF outcome = "failed"
  THEN [should_respond |-> FALSE, error |-> TRUE,
        log |-> <<DecisionRow(e, FALSE, TRUE)>>, threw |-> FALSE]
  ELSE IF ~stored
  THEN [should_respond |-> FALSE, error |-> TRUE,
        log |-> <<DecisionRow(e, outcome = "respond", FALSE), DecisionRow(e, FALSE, TRUE)>>,
        threw |-> FALSE]
  ELSE [should_respond |-> outcome = "respond", error |-> FALSE,
        log |-> <<DecisionRow(e, outcome = "respond", FALSE)>>, threw |-> FALSE]

\* The decision oracle answers (or fails): the rest of shouldRespond and of
\* evaluateAutonomousResponse, which has no call of markEvaluated. storePrompt
\* is reached only after a valid answer. count is the channel's
\* messageCountSinceEval when evaluateAutonomousResponse returns.
\* A test that queues a job for every verdict.
decisionQueues_always(decision) == ~decision.threw

\* "if (decision.should_respond)" after the await of shouldRespond; a throw of
\* shouldRespond leaves evaluateAutonomousResponse before the test.
decisionQueues(decision) == ~decision.threw /\ decision.should_respond

EvalReturns(e, outcome, stored) ==
  LET decision == shouldRespond(e, outcome, stored)
      decisionId == IF decision.threw THEN 0 ELSE Len(decisions) + Len(decision.log)
  IN /\ e \in evaluations
     /\ outcome = "failed" => stored
     /\ evaluations' = evaluations \ {e}
     /\ decisions' = decisions \o decision.log
     /\ returned' = Append(returned, [eval |-> e.id, chan |-> e.chan, oracle |-> outcome,
                                      stored |-> stored,
                                      count |-> messageCountSinceEval[e.chan],
                                      should_respond |-> decision.should_respond,
                                      error |-> decision.error, threw |-> decision.threw,
                                      decisionId |-> decisionId])
     /\ IF decisionQueues(decision)
        THEN enqueue([type |-> "autonomous", chan |-> e.chan, msg |-> 0,
                      decisionId |-> decisionId])
        ELSE UNCHANGED <<messageQueue, isProcessing, workers, enqLog, dequeued>>
     /\ UNCHANGED <<now, nextMsgId, delivered, store, messageCountSinceEval, evaluationTimers,
                    liveTimers, burst, triggers, gen, dbOpen, outbox, failed, probe, tracking>>

\* sendTyping resolved: the context is built from the database and the
\* generation oracle called; the read throws on a closed database.
\* buildContextFromDatabase(channelId, {fetchLimit, contextBefore}): the ids of
\* dbMessages.
buildContextFromDatabase(c, contextBefore) ==
  LET rawMessages == getRecentMessages(c, FetchLimit)
      dbMessages == getMessagesForEvaluation(rawMessages, contextBefore,
                        MaxContextAgeMinutes, MaxConversationGapMinutes)
  IN {dbMessages[i].id : i \in 1..Len(dbMessages)}

\* sendTyping resolved and the context was built. traced: the ids of the
\* context are kept with the job (the text generated from them is not modelled
\* here).
TypingDone(w, traced) ==
  /\ w \in workers
  /\ w.pc = "typing"
  /\ IF dbOpen
     THEN /\ workers' = (workers \ {w}) \cup
                          {[w EXCEPT !.pc = "generating",
                                     !.context = IF traced
                                                 THEN buildContextFromDatabase(w.job.chan,
                                                        IF w.job.type = "direct"
                                                        THEN DirectContextBefore
                                                        ELSE EvalContextBefore)
                                                 ELSE {}]}
          /\ UNCHANGED <<messageQueue, isProcessing, dequeued, failed>>
     ELSE catchError(w)
  /\ UNCHANGED <<now, nextMsgId, delivered, store, messageCountSinceEval, evaluationTimers,
                 liveTimers, evaluations, decisions, enqLog, burst, triggers, gen,
                 dbOpen, returned, outbox, probe, tracking>>

\* sendTyping was rejected by the transport.
TypingFailed(w) ==
  /\ w \in workers
  /\ w.pc = "typing"
  /\ catchError(w)
  /\ UNCHANGED <<now, nextMsgId, delivered, store, messageCountSinceEval, evaluationTimers,
                 liveTimers, evaluations, decisions, enqLog, burst, triggers, gen,
                 dbOpen, returned, outbox, probe, tracking>>

\* generateResponseWithChatCompletions returned a reply: channel.send is called.
Generated(w) ==
  /\ w \in workers
  /\ w.pc = "generating"
  /\ workers' = (workers \ {w}) \cup {[w EXCEPT !.pc = "sending"]}
  /\ UNCHANGED <<now, nextMsgId, delivered, store, messageCountSinceEval, evaluationTimers,
                 liveTimers, evaluations, decisions, messageQueue, isProcessing,
                 enqLog, dequeued, burst, triggers, gen, dbOpen, returned, outbox, failed, probe, tracking>>

\* generateResponseWithChatCompletions threw: the catch block of processMessageQueue.
GenerationFailed(w) ==
  /\ w \in workers
  /\ w.pc = "generating"
  /\ catchError(w)
  /\ UNCHANGED <<now, nextMsgId, delivered, store, messageCountSinceEval, evaluationTimers,
                 liveTimers, evaluations, decisions, enqLog, burst, triggers, gen,
                 dbOpen, returned, outbox, probe, tracking>>

\* channel.send was rejected by the transport: nothing reached the channel.
SendFailed(w) ==
  /\ w \in workers
  /\ w.pc = "sending"
  /\ catchError(w)
  /\ UNCHANGED <<now, nextMsgId, delivered, store, messageCountSinceEval, evaluationTimers,
                 liveTimers, evaluations, decisions, enqLog, burst, triggers, gen,
                 dbOpen, returned, outbox, probe, tracking>>

\* sendErrorResponse resolved: the apology was handed to the transport
\* (sendErrorResponse swallows its own errors).
ApologyDone(w) ==
  /\ w \in workers
  /\ w.pc = "apologizing"
  /\ outbox' = outbox \cup {Sent(w, "apology")}
  /\ loopNext(w)
  /\ UNCHANGED <<now, nextMsgId, delivered, store, messageCountSinceEval, evaluationTimers,
                 liveTimers, evaluations, decisions, enqLog, burst, triggers, gen,
                 dbOpen, returned, failed, probe, tracking>>

\* channel.send resolved: the rest of processDirectMessage / processAutonomousMessage.
\* logged tells whether the insert of logResponse, the first write after the
\* send, succeeded; it throws on a closed database.
\* A markDecisionResponseSent that updates no row.
markDecisionResponseSent_skipped(rows, decisionId) == rows

\* UPDATE decision_log SET response_sent = 1 WHERE id = decisionId.
markDecisionResponseSent(rows, decisionId) ==
  [j \in 1..Len(rows) |-> IF j = decisionId THEN [rows[j] EXCEPT !.response_sent = TRUE]
                          ELSE rows[j]]

SendDone(w, logged) ==
  LET c == w.job.chan
      sentMessage == Msg(nextMsgId, TRUE, now)
  IN /\ w \in workers
     /\ w.pc = "sending"
     /\ nextMsgId' = nextMsgId + 1
     /\ outbox' = outbox \cup {Sent(w, "reply")}
     /\ IF dbOpen /\ logged
        THEN /\ decisions' = IF w.job.type = "autonomous" /\ w.job.decisionId # 0
                             THEN markDecisionResponseSent(decisions, w.job.decisionId)
                             ELSE decisions
             /\ store' = [store EXCEPT ![c] = insertMessageEnhanced(store[c], sentMessage)]
             /\ messageCountSinceEval' = [messageCountSinceEval EXCEPT ![c] = 0]
             /\ cancelEvaluationTimer(c)
             /\ afterJob(w)
             /\ UNCHANGED failed
        ELSE /\ catchError(w)
             /\ UNCHANGED <<decisions, store, messageCountSinceEval, liveTimers,
                            evaluationTimers, burst>>
     /\ UNCHANGED <<now, delivered, evaluations, enqLog, triggers, gen, dbOpen, returned, probe, tracking>>

\* The inter-job delay elapsed.
DelayElapsed(w) ==
  /\ w \in workers
  /\ w.pc = "delay"
  /\ now >= w.until
  /\ loopNext(w)
  /\ UNCHANGED <<now, nextMsgId, delivered, store, messageCountSinceEval, evaluationTimers,
                 liveTimers, evaluations, decisions, enqLog, burst, triggers, gen,
                 dbOpen, returned, outbox, failed, probe, tracking>>

\* shutdown(): every timer of evaluationTimers is cleared, the map emptied and
\* the database closed; messageQueue and isProcessing are left as they are.
\* probe keeps the number of jobs dequeued when shutdown() returned.
shutdown ==
  /\ dbOpen
  /\ dbOpen' = FALSE
  /\ probe' = [op |-> "shutdown", dequeued |-> Len(dequeued), queued |-> Len(messageQueue)]
  /\ liveTimers' = {t \in liveTimers : \A c \in Chans : evaluationTimers[c] # t.id}
  /\ evaluationTimers' = [c \in Chans |-> 0]
  /\ burst' = [c \in Chans |-> IF burst[c].end = "pending"
                               THEN [burst[c] EXCEPT !.end = "cancelled"] ELSE burst[c]]
  /\ UNCHANGED <<now, nextMsgId, delivered, store, messageCountSinceEval, evaluations,
                 decisions, messageQueue, isProcessing, workers, enqLog, dequeued,
                 triggers, gen, returned, outbox, failed, tracking>>

\* A step of the dispatch worker.
WorkerStep ==
  \/ \E w \in workers : TypingDone(w, FALSE)
  \/ \E w \in workers : TypingFailed(w)
  \/ \E w \in workers : Generated(w)
  \/ \E w \in workers : GenerationFailed(w)
  \/ \E w \in workers : SendFailed(w)
  \/ \E w \in workers : ApologyDone(w)
  \/ \E w \in workers : SendDone(w, TRUE)
  \/ \E w \in workers : DelayElapsed(w)

Next ==
  \/ Tick
  \/ \E c \in Chans, kind \in Kinds : handleMessageCreate(c, kind, TRUE)
  \/ \E t \in liveTimers : TimerFires(t)
  \/ \E e \in evaluations, outcome \in {"respond", "decline", "failed"} :
       EvalReturns(e, outcome, TRUE)
  \/ WorkerStep

Spec == Init /\ [][Next]_vars

\* The client with a shutdown() that may be called at any moment.
NextShutdown ==
  \/ Next
  \/ shutdown

\* The client whose writes to the database may fail: the insert of addMessage
\* in handleMessageCreate, the insert of storePrompt inside shouldRespond, and
\* the insert of logResponse after the reply was sent.
NextFault ==
  \/ Next
  \/ \E c \in Chans, kind \in Kinds : handleMessageCreate(c, kind, FALSE)
  \/ \E e \in evaluations, outcome \in {"respond", "decline"} : EvalReturns(e, outcome, FALSE)
  \/ \E w \in workers : SendDone(w, FALSE)

\* The transport delivers at most LiveMaxMsgs messages into an empty store.
InitLive == Init /\ store = [c \in Chans |-> << >>]

NextLive == NextFault /\ delivered' <= LiveMaxMsgs

SpecFault == InitLive /\ [][NextLive]_vars

SpecShutdown == InitLive /\ [][NextShutdown /\ delivered' <= LiveMaxMsgs]_vars

\* The same client under the scheduling of the event loop: the clock advances,
\* and the awaited call of a job in progress settles (the processing of each
\* job terminates).
\* A message with an image attachment is delivered: handleMessageCreate runs up
\* to "await this.visionService.processMessageImmediate(message)" in
\* addMessage and is suspended there; the handlers of later messages run
\* meanwhile.
addMessageAwaitsVision(c, kind) ==
  LET m == Msg(nextMsgId, FALSE, now)
  IN /\ delivered < MaxMsgs
     /\ delivered' = delivered + 1
     /\ nextMsgId' = nextMsgId + 1
     /\ triggers' = IF kind = "direct" THEN triggers \cup {m.id} ELSE triggers
     /\ tracking' = tracking \cup {[chan |-> c, kind |-> kind, msg |-> m]}
     /\ UNCHANGED <<now, store, messageCountSinceEval, evaluationTimers, liveTimers,
                    evaluations, decisions, messageQueue, isProcessing, workers, enqLog,
                    dequeued, burst, gen, dbOpen, returned, outbox, failed, probe>>

\* The image descriptions arrive and the suspended handler goes on.
VisionDescribed(h) ==
  /\ h \in tracking
  /\ tracking' = tracking \ {h}
  /\ IF dbOpen
     THEN afterAddMessage(h.chan, h.kind, h.msg)
     ELSE UNCHANGED <<store, messageCountSinceEval, messageQueue, isProcessing, workers,
                      enqLog, dequeued, liveTimers, burst, evaluationTimers>>
  /\ UNCHANGED <<now, nextMsgId, delivered, triggers, evaluations, decisions, gen, dbOpen,
                 returned, outbox, failed, probe>>

NextVision ==
  \/ Next
  \/ \E c \in Chans, kind \in Kinds : addMessageAwaitsVision(c, kind)
  \/ \E h \in tracking : VisionDescribed(h)

\* The running client whose messages may carry images, over LiveMaxMsgs
\* messages.
SpecVision == InitLive /\ [][NextVision /\ delivered' <= LiveMaxMsgs]_vars

\* The worker's steps with the context of each reply traced.
WorkerStepTraced ==
  \/ \E w \in workers : TypingDone(w, TRUE)
  \/ \E w \in workers : TypingFailed(w)
  \/ \E w \in workers : Generated(w)
  \/ \E w \in workers : GenerationFailed(w)
  \/ \E w \in workers : SendFailed(w)
  \/ \E w \in workers : ApologyDone(w)
  \/ \E w \in workers : SendDone(w, TRUE)
  \/ \E w \in workers : DelayElapsed(w)

TimerStep == \E t \in liveTimers : TimerFires(t)

OracleStep ==
  \E e \in evaluations, outcome \in {"respond", "decline", "failed"} :
    EvalReturns(e, outcome, TRUE)

\* Messages arrive early enough for the timers they arm to fire within MaxTime.
NextConsider ==
  \/ Tick
  \/ /\ now + Max(MentionDebounceSeconds, debounceSeconds(FALSE)) <= MaxTime
     /\ \E c \in Chans, kind \in Kinds : handleMessageCreate(c, kind, TRUE)
  \/ TimerStep
  \/ OracleStep
  \/ WorkerStepTraced

\* The running client over LiveMaxMsgs messages, its writes succeeding: time
\* passes, armed timers fire, the oracle answers or fails, the worker goes on.
SpecConsider ==
  /\ InitLive
  /\ [][NextConsider /\ delivered' <= LiveMaxMsgs]_vars
  /\ WF_vars(Tick)
  /\ WF_vars(TimerStep)
  /\ WF_vars(OracleStep)
  /\ WF_vars(WorkerStepTraced)

SpecLive == SpecFault /\ WF_vars(Tick) /\ WF_vars(WorkerStep)

\* ------------------------------------------- generateResponseWithChatCompletions
\* The first oracle call is issued.
GenStart ==
  /\ gen.pc = "idle"
  /\ gen' = [gen EXCEPT !.pc = "awaitOracle", !.oracleCalls = 1]
  /\ UNCHANGED <<dispatchVars, dbOpen, historyVars, probe>>

\* A loop iteration starts: the requested tool is invoked.
startTool(g) ==
  [g EXCEPT !.pc = "awaitTool", !.iterationCount = @ + 1, !.toolExecs = @ + 1]

finish(g) ==
  [g EXCEPT !.pc = "returned", !.replyMessage = finalReply(g.structuredResponse)]

\* The pending oracle call is answered; the answer is parsed and the code runs
\* on to the next tool execution, to the return, or to the TypeError raised by
\* reading a property of null.
OracleAnswers(content) ==
  /\ gen.pc = "awaitOracle"
  /\ LET call == gen.oracleCalls
         sr == parseStructuredResponse(content, call)
         asksTool == sr.needs_tool /\ sr.tool_request # "none"
         g == [gen EXCEPT
                 !.structuredResponse = sr,
                 !.needsLead = IF gen.leadOpen /\ asksTool THEN call ELSE @,
                 !.leadOpen = gen.leadOpen /\ asksTool,
                 !.stopAt = IF @ = 0 /\ content.kind = "object" /\ ~sr.continue_iterating
                            THEN call ELSE @,
                 !.stopMessage = IF gen.stopAt = 0 /\ content.kind = "object"
                                    /\ ~sr.continue_iterating
                                 THEN sr.message ELSE @]
     IN gen' = IF sr.kind = "null" THEN [g EXCEPT !.pc = "threw"]
               ELSE IF gen.iterationCount > 0 /\ breakLoop(sr) THEN finish(g)
               ELSE IF loopCondition(sr, gen.iterationCount) THEN startTool(g)
               ELSE finish(g)
  /\ UNCHANGED <<dispatchVars, dbOpen, historyVars, probe>>

\* The pending oracle call is rejected (network or API error): the error
\* leaves generateResponseWithChatCompletions.
OracleRejects ==
  /\ gen.pc = "awaitOracle"
  /\ gen' = [gen EXCEPT !.pc = "threw", !.rejected = TRUE]
  /\ UNCHANGED <<dispatchVars, dbOpen, historyVars, probe>>

\* The tool returns its result, which is logged; the next oracle call is issued.
ToolReturns(success) ==
  /\ gen.pc = "awaitTool"
  /\ success \in executeTool(gen.structuredResponse.tool_request)
  /\ LET failures == Len(SelectSeq(gen.allToolResults, LAMBDA r : ~r.success))
     IN success \/ failures < MaxFailedTools
  /\ gen' = [gen EXCEPT
               !.allToolResults = Append(@, [tool |-> gen.structuredResponse.tool_request,
                                             success |-> success,
                                             iteration |-> gen.iterationCount]),
               !.oracleCalls = @ + 1,
               !.pc = "awaitOracle"]
  /\ UNCHANGED <<dispatchVars, dbOpen, historyVars, probe>>

\* The tool call rejects: the error leaves executeTool and
\* generateResponseWithChatCompletions.
ToolRejects ==
  /\ gen.pc = "awaitTool"
  /\ executeToolRejects(gen.structuredResponse.tool_request)
  /\ gen' = [gen EXCEPT !.pc = "threw", !.toolThrew = TRUE]
  /\ UNCHANGED <<dispatchVars, dbOpen, historyVars, probe>>

\* The caller sends the returned reply to the channel.
ChannelSend ==
  /\ gen.pc = "returned"
  /\ gen' = [gen EXCEPT !.pc = "sent", !.sent = gen.replyMessage]
  /\ UNCHANGED <<dispatchVars, dbOpen, historyVars, probe>>

InitGen == Init /\ store = [c \in Chans |-> << >>]

NextGen ==
  \/ GenStart
  \/ \E content \in OracleContents : OracleAnswers(content)
  \/ OracleRejects
  \/ \E success \in BOOLEAN : ToolReturns(success)
  \/ ToolRejects
  \/ ChannelSend

SpecGen == InitGen /\ [][NextGen]_vars

\* ------------------------------------------------- the windowing functions
\* The windowing and ratio functions applied to stores of channel "c1" built
\* from bursts of messages by one author, with pauses between them.
BurstLengths == {1, 20}

\* Pauses in seconds: 10 and 35 minutes.
Pauses == {600, 2100}

\* autonomous.max_context_age_minutes and max_conversation_gap_minutes as
\* configured (both default to 30).
ConfigMaxAgeMinutes == {30, 60}

ConfigMaxGapMinutes == {30}

FetchLimits == {1, 2, FetchLimit}

winFrame == <<messageCountSinceEval, evaluationTimers, liveTimers, evaluations, decisions,
              messageQueue, isProcessing, workers, enqLog, dequeued, burst, triggers, gen,
              dbOpen, returned, outbox, failed, tracking>>

RECURSIVE insertBurst(_, _, _, _, _)
\* n consecutive insertMessageEnhanced calls for messages of one author, one
\* second apart.
insertBurst(rows, id, bot, t, n) ==
  IF n = 0 THEN rows
  ELSE insertBurst(insertMessageEnhanced(rows, Msg(id, bot, t)), id + 1, bot, t + 1, n - 1)

\* A burst of n messages is stored, the first one a second from now;
\* delivered counts the bursts.
StoreBurst(bot, n) ==
  /\ probe = NoProbe
  /\ delivered < WinMaxBursts
  /\ Len(store["c1"]) + n <= WinMaxStored
  /\ now + n <= WinMaxClock
  /\ delivered' = delivered + 1
  /\ nextMsgId' = nextMsgId + n
  /\ store' = [store EXCEPT !["c1"] = insertBurst(@, nextMsgId, bot, now + 1, n)]
  /\ now' = now + n
  /\ UNCHANGED <<probe, winFrame>>

ClockAdvances(d) ==
  /\ probe = NoProbe
  /\ now + d <= WinMaxClock
  /\ now' = now + d
  /\ UNCHANGED <<nextMsgId, delivered, store, probe, winFrame>>

\* db.getRecentMessages(channelId, limit)
CallGetRecentMessages(limit) ==
  /\ probe = NoProbe
  /\ probe' = [op |-> "getRecentMessages", limit |-> limit,
               rows |-> getRecentMessages("c1", limit)]
  /\ UNCHANGED <<now, nextMsgId, delivered, store, winFrame>>

\* getMessagesForEvaluation(messages, 5) on the list of getRecentMessages as
\* it is returned (order "stored") or on that list newest-first (order
\* "documented"), then on its own result.
CallGetMessagesForEvaluation(order, maxAgeMinutes, maxGapMinutes) ==
  LET recentMessages == getRecentMessages("c1", FetchLimit)
      messages == IF order = "stored" THEN recentMessages ELSE Reverse(recentMessages)
      window == getMessagesForEvaluation(messages, EvalContextBefore, maxAgeMinutes, maxGapMinutes)
  IN /\ probe = NoProbe
     /\ probe' = [op |-> "getMessagesForEvaluation", order |-> order,
                  maxAgeMinutes |-> maxAgeMinutes, maxGapMinutes |-> maxGapMinutes,
                  messages |-> messages, window |-> window,
                  again |-> getMessagesForEvaluation(window, EvalContextBefore,
                                                     maxAgeMinutes, maxGapMinutes)]
     /\ UNCHANGED <<now, nextMsgId, delivered, store, winFrame>>

\* The ratio evaluateAutonomousResponse computes and hands to shouldRespond.
CallCalculateBotRatio ==
  LET recentMessages == getRecentMessages("c1", FetchLimit)
  IN /\ probe = NoProbe
     /\ probe' = [op |-> "calculateBotRatio",
                  botRatio |-> calculateBotRatio(recentMessages, RatioMaxMessages,
                                                 RatioMaxAgeMinutes)]
     /\ UNCHANGED <<now, nextMsgId, delivered, store, winFrame>>

InitWin == Init /\ store = [c \in Chans |-> << >>]

NextWin ==
  \/ \E bot \in BOOLEAN, n \in BurstLengths : StoreBurst(bot, n)
  \/ \E d \in Pauses : ClockAdvances(d)
  \/ \E limit \in FetchLimits : CallGetRecentMessages(limit)
  \/ \E order \in {"stored", "documented"}, maxAgeMinutes \in ConfigMaxAgeMinutes,
        maxGapMinutes \in ConfigMaxGapMinutes :
       CallGetMessagesForEvaluation(order, maxAgeMinutes, maxGapMinutes)
  \/ CallCalculateBotRatio

SpecWin == InitWin /\ [][NextWin]_vars

\* ------------------------------------------------------- the message store
\* The writes to the messages table of channel "c1", for rows that carry the
\* enrichment columns. NULL is "none"; the other values stand for two
\* different JSON texts.
Enrichments == {"none", "a", "b"}

StoreIds == 1..StoreMaxIds

\* A row of messages with its vision_descriptions and url_summaries columns.
\* The message of id i was created at second i; agent-authored ids are even.
Row(id, vision, urls) ==
  [id |-> id, is_bot_message |-> id % 2 = 0, created_at |-> id,
   vision_descriptions |-> vision, url_summaries |-> urls]

\* insertMessage: INSERT OR REPLACE naming seven columns; the columns it does
\* not name take their default, NULL.
insertMessage(rows, id) == insertMessageEnhanced(rows, Row(id, "none", "none"))

\* UPDATE messages SET vision_descriptions = ? WHERE id = ?
updateMessageVision(rows, id, vision) ==
  [i \in 1..Len(rows) |->
     IF rows[i].id = id THEN [rows[i] EXCEPT !.vision_descriptions = vision] ELSE rows[i]]

\* UPDATE messages SET url_summaries = ? WHERE id = ?
updateMessageUrlSummaries(rows, id, urls) ==
  [i \in 1..Len(rows) |->
     IF rows[i].id = id THEN [rows[i] EXCEPT !.url_summaries = urls] ELSE rows[i]]

\* What a write observed: the operation, the id, and the rows of that id
\* before the write.
Observed(op, id, vision, urls) ==
  [op |-> op, id |-> id, vision |-> vision, urls |-> urls,
   before |-> SelectSeq(store["c1"], LAMBDA r : r.id = id)]

storeFrame == <<now, nextMsgId, delivered, winFrame>>

\* insertMessageEnhanced({id, ..., visionDescriptions, urlSummaries}); both
\* default to null (MessageTracker.addMessage never passes urlSummaries).
CallInsertMessageEnhanced(id, vision, urls) ==
  /\ store' = [store EXCEPT !["c1"] = insertMessageEnhanced(@, Row(id, vision, urls))]
  /\ probe' = Observed("insertMessageEnhanced", id, vision, urls)
  /\ UNCHANGED storeFrame

\* insertMessage(message, isBotMessage)
CallInsertMessage(id) ==
  /\ store' = [store EXCEPT !["c1"] = insertMessage(@, id)]
  /\ probe' = Observed("insertMessage", id, "none", "none")
  /\ UNCHANGED storeFrame

CallUpdateMessageVision(id, vision) ==
  /\ store' = [store EXCEPT !["c1"] = updateMessageVision(@, id, vision)]
  /\ probe' = Observed("updateMessageVision", id, vision, "none")
  /\ UNCHANGED storeFrame

CallUpdateMessageUrlSummaries(id, urls) ==
  /\ store' = [store EXCEPT !["c1"] = updateMessageUrlSummaries(@, id, urls)]
  /\ probe' = Observed("updateMessageUrlSummaries", id, "none", urls)
  /\ UNCHANGED storeFrame

InitStore == Init /\ store = [c \in Chans |-> << >>]

NextStore ==
  \/ \E id \in StoreIds, vision \in Enrichments, urls \in Enrichments :
       CallInsertMessageEnhanced(id, vision, urls)
  \/ \E id \in StoreIds : CallInsertMessage(id)
  \/ \E id \in StoreIds, vision \in Enrichments \ {"none"} : CallUpdateMessageVision(id, vision)
  \/ \E id \in StoreIds, urls \in Enrichments \ {"none"} : CallUpdateMessageUrlSummaries(id, urls)

SpecStore == InitStore /\ [][NextStore]_vars

\* ------------------------------------------------------- the debounce wait
\* The waits scheduleAutonomousEvaluation computes under a configuration, for a
\* message that mentions the agent's name and for one that does not.
CallDebounce(configured) ==
  /\ probe' = [op |-> "debounce", debounce_seconds |-> configured,
               named |-> debounceWait(TRUE, configured),
               plain |-> debounceWait(FALSE, configured)]
  /\ UNCHANGED <<dispatchVars, gen, dbOpen, historyVars>>

NextDebounce == \E configured \in 0..MaxConfigDebounce : CallDebounce(configured)

SpecDebounce == Init /\ [][NextDebounce]_vars

\* ----------------------------------------------------------------- claims
TimersOf(c) == {t \in liveTimers : t.chan = c}

\* C1: in every reachable state every channel has at most one armed debounce
\* timer, and evaluationTimers holds an entry for a channel exactly when that
\* one timer is pending (a fired or cancelled timer leaves no entry).
C1_OneTimerPerChannel ==
  \A c \in Chans :
    /\ Cardinality(TimersOf(c)) <= 1
    /\ \A t \in TimersOf(c) : evaluationTimers[c] = t.id
    /\ evaluationTimers[c] # 0 => \E t \in TimersOf(c) : t.id = evaluationTimers[c]

\* C1 witness: a timer is pending that was re-armed by a later message of the
\* same burst (the earlier timer was cancelled).
C1_Witness ==
  \E c \in Chans : burst[c].n >= 2 /\ burst[c].end = "pending" /\ TimersOf(c) # {}

\* C2: a debounce timer that was pending when a direct trigger of its channel
\* was handled never fires, so no decision-oracle call is ever made for it.
C2_DirectTriggerCancelsTimer ==
  \A e \in evaluations : ~e.superseded

\* C3: at most one invocation of processMessageQueue is alive, so at most one
\* job is being processed; a live worker implies isProcessing.
C3_SingleWorker ==
  /\ Cardinality(workers) <= 1
  /\ workers # {} => isProcessing

\* C3 witness: a job was pushed while the worker was processing another one.
C3_Witness ==
  \E w \in workers : w.pc \in {"generating", "sending"} /\ Len(messageQueue) >= 1

\* C4: the jobs shifted so far are, in order, the first jobs pushed: no job is
\* processed before one that was pushed earlier.
C4_FifoOrder ==
  /\ Len(dequeued) <= Len(enqLog)
  /\ \A i \in 1..Len(dequeued) : dequeued[i] = enqLog[i]

\* C4 witness: two jobs of different type and channel waited in the queue
\* together and have both been shifted.
C4_Witness ==
  /\ Len(dequeued) = 3
  /\ dequeued[2].type # dequeued[3].type
  /\ dequeued[2].chan # dequeued[3].chan
  /\ \E w \in workers : w.job = dequeued[3]

\* C6: no decision-oracle call is made while the dominance ratio computed at
\* timer firing exceeds the hard ceiling of 40%.
C6_HardCeilingSkipsOracle ==
  \A e \in evaluations : e.botRatio.num * 100 <= HardCeilingPercent * e.botRatio.den

\* C7: every direct-trigger message handled has had a Direct job pushed for
\* it, whatever the dominance ratio of its channel.
C7_DirectAlwaysEnqueued ==
  \A id \in triggers :
    \E i \in 1..Len(enqLog) : enqLog[i].type = "direct" /\ enqLog[i].msg = id

\* C7 witness: a Direct job was pushed for a trigger that arrived in a channel
\* whose ratio was 1.0 (every message stored before it is agent-authored).
C7_Witness ==
  \E i \in 1..Len(enqLog) :
    /\ enqLog[i].type = "direct"
    /\ LET prior == SelectSeq(store[enqLog[i].chan], LAMBDA m : m.id < enqLog[i].msg)
           r == calculateBotRatio(prior, RatioMaxMessages, RatioMaxAgeMinutes)
       IN r.den > 0 /\ r.num = r.den

\* The debounce interval of the channel's burst ran out uninterrupted: its
\* timer fired (it was neither re-armed nor cancelled by a sent response).
BurstFired(c) == burst[c].n >= 1 /\ burst[c].end \in {"called", "skipped"}

\* C8: for a burst of non-trigger messages whose last debounce interval
\* elapsed uninterrupted, exactly one decision-oracle call has been made, no
\* earlier than the debounce interval after the last message of the burst.
C8_ExactlyOneCallPerBurst ==
  \A c \in Chans :
    BurstFired(c) => burst[c].calls = 1 /\ burst[c].callAt >= burst[c].due

\* The counters of the tool loop never pass the iteration cap.
ToolLoopBounded ==
  /\ gen.iterationCount <= maxIterations
  /\ gen.toolExecs = gen.iterationCount
  /\ gen.toolExecs <= maxIterations
  /\ gen.oracleCalls <= maxIterations + 1

\* C5: whatever the generation oracle answers, one generation makes at most
\* maxIterations + 1 oracle calls and at most maxIterations tool executions,
\* and when every call was answered it ends by returning a reply, never by
\* raising an error.
C5_BoundedLoopReturnsReply ==
  /\ gen.oracleCalls <= maxIterations + 1
  /\ gen.toolExecs <= maxIterations
  /\ gen.pc = "threw" => gen.rejected

\* The oracle asked for a tool in each of its first k answers and answer k+1
\* is the first one with continue_iterating = false.
ToolsThenStop(k) == gen.needsLead >= k /\ gen.stopAt = k + 1

Replied == gen.pc \in {"returned", "sent"}

\* C9 as claimed: after k tool-requesting answers followed by the first answer
\* with continue_iterating = false, exactly k+1 oracle calls and k tool
\* executions occurred and the reply returned and sent is the message of
\* answer k+1 itself.
C9_ReplyIsStopMessage ==
  \A k \in 1..maxIterations :
    ToolsThenStop(k) /\ Replied =>
      /\ gen.oracleCalls = k + 1
      /\ gen.toolExecs = k
      /\ gen.replyMessage = gen.stopMessage
      /\ gen.pc = "sent" => gen.sent = gen.stopMessage

\* C9 amended: after k tool-requesting answers followed by the first answer
\* with continue_iterating = false, the generation has returned, exactly k+1
\* oracle calls and k tool executions occurred, and the reply returned and
\* sent is the message of answer k+1 cut to its first ReplyLimit characters,
\* or the fixed fallback apology when that message is empty.
C9_ReplyIsFinalStopMessage ==
  \A k \in 1..maxIterations :
    ToolsThenStop(k) =>
      /\ Replied
      /\ gen.oracleCalls = k + 1
      /\ gen.toolExecs = k
      /\ gen.replyMessage = IF gen.stopMessage.len = 0 THEN FallbackApology
                            ELSE [gen.stopMessage EXCEPT
                                    !.len = Min(@, ReplyLimit)]
      /\ gen.pc = "sent" => gen.sent = gen.replyMessage

\* C9 witness: three tool-requesting answers, then a fourth answer with
\* continue_iterating = false whose short message was sent after 4 calls.
C9_Witness ==
  /\ gen.pc = "sent"
  /\ ToolsThenStop(3)
  /\ gen.oracleCalls = 4
  /\ gen.toolExecs = 3
  /\ gen.sent = Text("message", 4, 5)

\* C10: every reply returned and sent has at most ReplyLimit characters; when
\* the final message is longer the reply is exactly its first ReplyLimit
\* characters, and a generation fails only on a rejected call, a null answer
\* or a rejected tool call, never because of the length of a message.
C10_ReplyWithinLimit ==
  /\ Replied =>
       /\ gen.replyMessage.len <= ReplyLimit
       /\ gen.structuredResponse.message.len > ReplyLimit =>
            gen.replyMessage = [gen.structuredResponse.message EXCEPT !.len = ReplyLimit]
  /\ gen.pc = "sent" => gen.sent = gen.replyMessage
  /\ gen.pc = "threw" =>
       gen.rejected \/ gen.structuredResponse.kind = "null" \/ gen.toolThrew

\* C10 witness: a final message of 2500 characters was sent as its first 2000.
C10_Witness ==
  /\ gen.pc = "sent"
  /\ gen.structuredResponse.message.len = 2500
  /\ gen.sent = [gen.structuredResponse.message EXCEPT !.len = 2000]
  /\ gen.sent.len = 2000

\* The worker has nothing left to do: the queue is empty, every job pushed was
\* shifted, no job is in progress and isProcessing is false.
Drained ==
  /\ messageQueue = << >>
  /\ Len(dequeued) = Len(enqLog)
  /\ workers = {}
  /\ ~isProcessing

\* C11: every job pushed is eventually shifted and its processing ended, also
\* after jobs whose processing raised an error: the worker ends up drained
\* with isProcessing false, and stays so once no more jobs arrive.
C11_EveryJobProcessed ==
  /\ \A i \in 1..MaxMsgs : (Len(enqLog) >= i) ~> (Len(dequeued) >= i)
  /\ <>[]Drained

\* C11 witness: a job was shifted and processed after the job before it had
\* failed, and the worker is drained.
C11_Witness ==
  /\ Drained
  /\ \E i \in failed : i + 1 <= Len(dequeued) /\ \E m \in outbox : m.job = i + 1 /\ m.kind = "reply"

\* Messages handed to the transport by the job dequeued in position i.
SentBy(i) == {m \in outbox : m.job = i}

\* C12: when the processing of a job fails, the fixed apology is sent if and
\* only if the job is a Direct job (once its processing is over), and a failed
\* Autonomous job sends no message at all to the channel.
C12_ApologyIffDirect ==
  \A i \in failed :
    /\ (\E m \in SentBy(i) : m.kind = "apology") => dequeued[i].type = "direct"
    /\ (dequeued[i].type = "direct" /\ \A w \in workers : w.idx # i)
         => \E m \in SentBy(i) : m.kind = "apology"
    /\ dequeued[i].type = "autonomous" => SentBy(i) = {}

RowsOf(id) == {j \in 1..Len(decisions) : decisions[j].eval = id}

\* C14: every evaluation performed by shouldRespond has recorded exactly one
\* Decision when it returns, which carries the ids of the evaluated messages
\* and the verdict that is returned.
C14_ExactlyOneDecision ==
  \A k \in 1..Len(returned) :
    /\ Cardinality(RowsOf(returned[k].eval)) = 1
    /\ \A j \in RowsOf(returned[k].eval) :
         /\ Len(decisions[j].ids) >= 1
         /\ decisions[j].should_respond = returned[k].should_respond

\* C15: after shutdown() has returned no debounce timer is live and the worker
\* dequeues no further job, also when jobs were queued at the time of the call.
C15_ShutdownStopsTimersAndWorker ==
  probe.op = "shutdown" =>
    /\ liveTimers = {}
    /\ Len(dequeued) = probe.dequeued

\* Oldest first: every message is older than the ones that follow it.
Chronological(rows) == \A i, j \in 1..Len(rows) : i < j => Before(rows[i], rows[j])

NewestFirst(rows) == \A i, j \in 1..Len(rows) : i < j => Before(rows[j], rows[i])

\* C16: getMessagesForEvaluation returns its messages oldest first for every
\* input list, newest-first or oldest-first, the list of getRecentMessages
\* included.
C16_WindowIsChronological ==
  probe.op = "getMessagesForEvaluation" => Chronological(probe.window)

\* C17: when two consecutive stored messages are more than maxGapMinutes apart,
\* the window built from the list of getRecentMessages holds no message from
\* before that gap.
C17_NothingOlderThanGap ==
  (probe.op = "getMessagesForEvaluation" /\ probe.order = "stored") =>
    \A i \in 1..(Len(store["c1"]) - 1) :
      store["c1"][i + 1].created_at - store["c1"][i].created_at > probe.maxGapMinutes * 60
        => \A k \in 1..Len(probe.window) : Before(store["c1"][i], probe.window[k])

\* C18: getMessagesForEvaluation applied to a window it returned, at the same
\* clock value and with the same parameters, returns that window unchanged.
C18_WindowingIdempotent ==
  probe.op = "getMessagesForEvaluation" => probe.again = probe.window

\* The 20 most recent stored messages that are at most 30 minutes old.
RatioWindow ==
  LET rows == store["c1"]
      last == SubSeq(rows, Max(1, Len(rows) - RatioMaxMessages + 1), Len(rows))
  IN SelectSeq(last, LAMBDA m : m.created_at >= now - RatioMaxAgeMinutes * 60)

\* C19: the ratio handed to the decision oracle is agent-authored over all
\* messages among the 20 most recent stored messages at most 30 minutes old,
\* 0 when there is none, and lies between 0 and 1.
C19_RatioOverMostRecent ==
  probe.op = "calculateBotRatio" =>
    LET agent == Len(SelectSeq(RatioWindow, LAMBDA m : m.is_bot_message))
        all == Len(RatioWindow)
    IN /\ probe.botRatio.num * all = agent * probe.botRatio.den
       /\ (all = 0 \/ probe.botRatio.den = 0) => probe.botRatio.num = 0 /\ agent = 0
       /\ 0 <= probe.botRatio.num
       /\ probe.botRatio.num <= probe.botRatio.den

\* C20: getRecentMessages(channelId, limit) returns the limit most recent
\* stored messages of the channel, newest first.
C20_MostRecentNewestFirst ==
  probe.op = "getRecentMessages" =>
    /\ Len(probe.rows) = Min(probe.limit, Len(store["c1"]))
    /\ \A i \in 1..Len(store["c1"]) :
         i > Len(store["c1"]) - probe.limit => store["c1"][i] \in Range(probe.rows)
    /\ NewestFirst(probe.rows)

\* Rows of channel "c1" stored under message id.
RowsWithId(id) == SelectSeq(store["c1"], LAMBDA r : r.id = id)

\* C21: after the same message id was inserted a second time with a different
\* enrichment, exactly one record is stored for that id and it holds the
\* enrichment of the later insert.
C21_UpsertKeepsLatest ==
  probe.op = "insertMessageEnhanced" =>
    /\ Len(RowsWithId(probe.id)) = 1
    /\ RowsWithId(probe.id)[1].vision_descriptions = probe.vision
    /\ RowsWithId(probe.id)[1].url_summaries = probe.urls

C21_Witness ==
  /\ probe.op = "insertMessageEnhanced"
  /\ Len(probe.before) = 1
  /\ probe.before[1].vision_descriptions = "a"
  /\ probe.vision = "b"
  /\ RowsWithId(probe.id)[1].vision_descriptions = "b"
  /\ Len(store["c1"]) = StoreMaxIds

\* C22: re-inserting a stored message id through normal tracking (insertMessage,
\* or insertMessageEnhanced without enrichment) leaves one record for the id,
\* with the image descriptions and link summaries it had before.
C22_ReinsertKeepsEnrichment ==
  (/\ probe.op \in {"insertMessage", "insertMessageEnhanced"}
   /\ probe.vision = "none" /\ probe.urls = "none"
   /\ Len(probe.before) = 1) =>
    /\ Len(RowsWithId(probe.id)) = 1
    /\ RowsWithId(probe.id)[1].vision_descriptions = probe.before[1].vision_descriptions
    /\ RowsWithId(probe.id)[1].url_summaries = probe.before[1].url_summaries

\* C23: a failing write to the message store does not prevent the reply to a
\* direct-trigger message: for every direct-trigger message delivered a Direct
\* job is enqueued, the job the reply is generated and sent by.
C23_WriteFailureKeepsReply ==
  \A id \in triggers :
    \E i \in 1..Len(enqLog) : enqLog[i].type = "direct" /\ enqLog[i].msg = id

\* The stored messages, oldest first, that survive the age filter and the gap
\* filter: those not older than maxAgeMinutes and not older than the most
\* recent gap of more than maxGapMinutes.
Surviving(maxAgeMinutes, maxGapMinutes) ==
  LET fresh == SelectSeq(getRecentMessages("c1", FetchLimit),
                         LAMBDA m : m.created_at >= now - maxAgeMinutes * 60)
      gaps == {i \in 1..(Len(fresh) - 1) :
                 fresh[i + 1].created_at - fresh[i].created_at > maxGapMinutes * 60}
  IN IF gaps = {} THEN fresh
     ELSE SubSeq(fresh, (CHOOSE i \in gaps : \A k \in gaps : k <= i) + 1, Len(fresh))

\* Up to contextBefore messages before the most recent agent message, that
\* message, and every message after it; all of them when there is none.
AroundLastAgentMessage(rows, contextBefore) ==
  LET agent == {i \in 1..Len(rows) : rows[i].is_bot_message}
  IN IF agent = {} THEN rows
     ELSE LET last == CHOOSE i \in agent : \A k \in agent : k <= i
          IN SubSeq(rows, Max(1, last - contextBefore), Len(rows))

\* C24: the window built from the store holds, of the surviving messages, at
\* most contextBefore messages right before the most recent agent message,
\* that message and every message after it, or all of them when none is
\* agent-authored.
C24_WindowAroundLastAgentMessage ==
  probe.op = "getMessagesForEvaluation" =>
    Range(probe.window) =
      Range(AroundLastAgentMessage(Surviving(probe.maxAgeMinutes, probe.maxGapMinutes),
                                   EvalContextBefore))

\* C25: when the evaluation started by a channel's timer completes, the
\* channel's message count since the last evaluation is 0, whatever the verdict.
C25_CounterResetAfterEvaluation ==
  \A k \in 1..Len(returned) : returned[k].count = 0

\* The answer last parsed is an object with continue_iterating = false.
StopAnswered ==
  gen.structuredResponse.kind = "object" /\ ~gen.structuredResponse.continue_iterating

\* The message of the answer last parsed as finalReply hands it on.
StopReply ==
  IF gen.structuredResponse.message.len = 0 THEN FallbackApology
  ELSE [gen.structuredResponse.message EXCEPT !.len = Min(@, ReplyLimit)]

\* C26 as claimed: once an answer has continue_iterating = false no tool is
\* executed and no oracle call made any more, and the reply is the message of
\* that answer, or the fallback apology when it is empty.
C26_StopEndsLoop ==
  StopAnswered =>
    /\ Replied
    /\ gen.replyMessage = IF gen.structuredResponse.message.len = 0 THEN FallbackApology
                          ELSE gen.structuredResponse.message

\* C26 amended: once an answer that follows a tool execution has
\* continue_iterating = false the generation has returned, without a further
\* tool execution or oracle call, the message of that answer cut to ReplyLimit
\* characters, or the fallback apology when it is empty. The first answer's
\* continue_iterating is not looked at: when it requests a tool, that one tool
\* is executed and, when it yields a result, the oracle is called once more.
C26_StopAfterToolEndsLoop ==
  StopAnswered =>
    \/ /\ Replied
       /\ gen.replyMessage = StopReply
       /\ gen.pc = "sent" => gen.sent = StopReply
    \/ /\ loopCondition(gen.structuredResponse, 0)
       /\ gen.iterationCount = 1
       /\ gen.toolExecs = 1
       /\ \/ gen.pc = "awaitTool" /\ gen.oracleCalls = 1
          \/ gen.pc = "awaitOracle" /\ gen.oracleCalls = 2
          \/ gen.pc = "threw" /\ gen.rejected /\ gen.oracleCalls = 2
          \/ gen.pc = "threw" /\ gen.toolThrew /\ gen.oracleCalls = 1

\* C26 witness: the answer to the second call, made after one tool execution,
\* asks for another tool with continue_iterating = false; the generation
\* returned its message after 2 calls and 1 tool execution.
C26_Witness ==
  /\ gen.pc = "returned"
  /\ StopAnswered
  /\ loopCondition(gen.structuredResponse, gen.iterationCount)
  /\ gen.oracleCalls = 2
  /\ gen.toolExecs = 1
  /\ gen.replyMessage = Text("message", 2, 5)

\* The answer last parsed was not a JSON object: text that does not parse, or
\* null.
UnstructuredAnswered ==
  \/ gen.structuredResponse.kind = "null"
  \/ gen.structuredResponse.message.src \in {"raw", "parse_error"}

\* C27: when the raw output of the oracle is not the structured object, the
\* generation returns at once, with no tool executed for that answer and
\* without failing, and the reply is the raw text (its first ReplyLimit
\* characters; the parse-error text when the raw text is empty).
C27_UnstructuredOutputBecomesReply ==
  UnstructuredAnswered =>
    /\ gen.pc # "threw"
    /\ Replied
    /\ gen.replyMessage.src \in {"raw", "parse_error"}
    /\ gen.replyMessage.call = gen.oracleCalls

\* C28: a failure while executing a known tool never aborts the job: every
\* tool execution ends with a result, success or not, that is appended to the
\* history before the next oracle call.
C28_ToolFailureNeverAborts ==
  /\ ~gen.toolThrew
  /\ Len(gen.allToolResults) = IF gen.pc = "awaitTool" THEN gen.toolExecs - 1
                               ELSE gen.toolExecs

\* C29: a request for a tool outside the known ones does not abort the job:
\* its execution ends with a success = false result appended to the history
\* under its iteration, and the next oracle call is made.
C29_UnknownToolIsFedBack ==
  /\ \A i \in 1..Len(gen.allToolResults) :
       gen.allToolResults[i].tool \notin KnownTools =>
         /\ ~gen.allToolResults[i].success
         /\ gen.allToolResults[i].iteration = i
         /\ gen.oracleCalls >= i + 1
  /\ gen.toolThrew => gen.structuredResponse.tool_request \in KnownTools
  /\ (gen.pc = "awaitTool" /\ gen.structuredResponse.tool_request \notin KnownTools)
       => Len(gen.allToolResults) = gen.toolExecs - 1

\* C29 witness: the unknown tool requested first failed, the oracle was called
\* again and its answer was sent as the reply.
C29_Witness ==
  /\ gen.pc = "sent"
  /\ Len(gen.allToolResults) = 1
  /\ gen.allToolResults[1].tool = "bogus"
  /\ ~gen.allToolResults[1].success
  /\ gen.oracleCalls = 2
  /\ gen.sent = Text("message", 2, 5)

\* The autonomous reply a is stale with respect to the direct reply d: same
\* channel, the evaluation behind a had started (it was in flight, or its job
\* already queued) when d was sent, a was sent after d, and no message was
\* stored in the channel between the two.
StaleAfter(d, a) ==
  /\ d.type = "direct" /\ d.kind = "reply"
  /\ a.type = "autonomous" /\ a.kind = "reply"
  /\ a.chan = d.chan
  /\ a.job > d.job
  /\ dequeued[a.job].decisionId \in 1..Len(decisions)
  /\ decisions[dequeued[a.job].decisionId].eval <= d.evals
  /\ \E i \in 1..(Len(store[d.chan]) - 1) :
       store[d.chan][i].id = d.msg /\ store[d.chan][i + 1].id = a.msg

\* C30: after a direct reply has been sent in a channel, no evaluation that
\* was in flight and no Autonomous job that was queued for the channel before
\* the reply sends a further message for the same moment of the conversation.
C30_NoStaleAutonomousReply ==
  \A d \in outbox : \A a \in outbox : ~StaleAfter(d, a)

\* C31: whenever the worker finishes a job, successfully or with an error,
\* and further jobs remain in the queue, it waits the inter-job delay before
\* it dequeues the next job: every job shifted by a running worker loop is
\* shifted after the delay.
C31_DelayBeforeEveryNextJob ==
  \A w \in workers : w.after \in {"start", "delay"}

JobsOf(d) == {j \in 1..Len(enqLog) : enqLog[j].type = "autonomous" /\ enqLog[j].decisionId = d}

\* C33: an Autonomous job is enqueued for a channel if and only if an
\* evaluation for that channel returned an affirmative verdict, and the job
\* carries the id of exactly that Decision: every Autonomous job names the
\* affirmative Decision row of a returned evaluation of its channel, and every
\* evaluation that returned an affirmative verdict has exactly one job, which
\* carries its decision id.
C33_AutonomousJobIffAffirmative ==
  /\ \A j \in 1..Len(enqLog) :
       enqLog[j].type = "autonomous" =>
         /\ enqLog[j].decisionId \in 1..Len(decisions)
         /\ decisions[enqLog[j].decisionId].should_respond
         /\ decisions[enqLog[j].decisionId].chan = enqLog[j].chan
         /\ \E k \in 1..Len(returned) :
              /\ returned[k].should_respond
              /\ returned[k].chan = enqLog[j].chan
              /\ returned[k].decisionId = enqLog[j].decisionId
              /\ returned[k].eval = decisions[enqLog[j].decisionId].eval
  /\ \A k \in 1..Len(returned) :
       IF returned[k].should_respond
       THEN Cardinality(JobsOf(returned[k].decisionId)) = 1
       ELSE JobsOf(returned[k].decisionId) = {}

\* C33 witness: two evaluations returned, the first with a negative and the
\* second with an affirmative verdict, and the only Autonomous job carries the
\* id of the second Decision and the channel of the second evaluation.
C33_Witness ==
  /\ Len(returned) = 2
  /\ \A j \in 1..Len(enqLog) :
       enqLog[j].type = "autonomous" => enqLog[j].chan = returned[2].chan
  /\ ~returned[1].should_respond
  /\ returned[2].should_respond
  /\ {enqLog[j].decisionId : j \in {i \in 1..Len(enqLog) : enqLog[i].type = "autonomous"}}
       = {returned[2].decisionId}
  /\ returned[2].decisionId = 2

\* The replies sent by Autonomous jobs that carry decision id d.
AutonomousRepliesOf(d) ==
  {s \in outbox : s.type = "autonomous" /\ s.kind = "reply" /\ dequeued[s.job].decisionId = d}

C35_NamedWaitShorter ==
  probe.op = "debounce" => probe.named < probe.plain

\* C36: between handlers, an idle worker (isProcessing = false) means an
\* empty dispatch queue, and a busy one means a worker loop is running: no
\* interleaving of enqueues with the exit of the worker leaves a job waiting
\* with no worker to drain it.
C36_IdleWorkerMeansEmptyQueue ==
  /\ ~isProcessing => Len(messageQueue) = 0 /\ workers = {}
  /\ isProcessing => workers # {}

\* C36 witness: the worker has exited with an empty queue after two Direct
\* jobs, the second of which was pushed while the first was being processed
\* (its trigger arrived before the first reply was sent).
C36_Witness ==
  /\ ~isProcessing
  /\ Len(messageQueue) = 0
  /\ Len(dequeued) = 2
  /\ dequeued[2].type = "direct"
  /\ \E s \in outbox : s.job = 1 /\ s.kind = "reply" /\ dequeued[2].msg < s.msg
  /\ \E s \in outbox : s.job = 2

\* C37: processing one Direct job never sends both the generated reply and
\* the apology, also when a persistence write fails after the reply was sent.
C37_ReplyOrApologyNotBoth ==
  \A i \in 1..Len(dequeued) :
    dequeued[i].type = "direct" =>
      ~ /\ \E m \in SentBy(i) : m.kind = "reply"
        /\ \E m \in SentBy(i) : m.kind = "apology"

\* C38: Direct jobs are enqueued in the order in which their triggering
\* messages were delivered (message ids grow in delivery order), also when
\* storing an earlier message takes longer than storing a later one.
C38_DirectJobsInDeliveryOrder ==
  \A i \in 1..Len(enqLog) : \A j \in 1..Len(enqLog) :
    (i < j /\ enqLog[i].type = "direct" /\ enqLog[j].type = "direct")
      => enqLog[i].msg < enqLog[j].msg

\* C39: when a debounce timer fires the decision oracle is consulted only if
\* the most recent stored message of the channel is not agent-authored: no
\* shouldRespond call is in flight that was started while the agent's message
\* was the most recent one.
C39_NoOracleWhenAgentSpokeLast ==
  \A e \in evaluations : ~e.agentLast

\* Message i is the most recent user message stored in channel c and it is
\* not a direct trigger: it armed the channel's debounce timer.
LastArming(c, i) ==
  /\ i \notin triggers
  /\ \E k \in 1..Len(store[c]) : store[c][k].id = i /\ ~store[c][k].is_bot_message
  /\ \A k \in 1..Len(store[c]) : ~store[c][k].is_bot_message => store[c][k].id <= i

\* Message i was in a window given to the decision oracle, or in the context
\* of a reply that was sent.
Considered(i) ==
  \/ \E d \in 1..Len(decisions) : i \in Range(decisions[d].ids)
  \/ \E s \in outbox : s.kind = "reply" /\ i \in s.context

\* C40: if a non-trigger message arms a debounce timer and no later message
\* arrives in its channel, then eventually the message is part of a window
\* given to the decision oracle or of the context of a reply that is sent.
C40_ArmingMessageConsidered ==
  \A c \in Chans : \A i \in 1..(MaxMsgs + 2 * LiveMaxMsgs) :
    (<>[]LastArming(c, i)) => <>Considered(i)
====
